---- MODULE Spec2Model ----
(***************************************************************************)
(* Model of the interaction head of spatially-conditioned-graphs           *)
(* (src/interaction_head.py): InteractionHead.preprocess, GraphHead.forward*)
(* with its helpers, InteractionHead.postprocess and the loss              *)
(* normalisation.                                                          *)
(*                                                                         *)
(* Conventions.  Tensors are sequences; TLA+ sequences are 1-based, so an  *)
(* index i of the model is index i-1 of the code.  Class indices (labels,  *)
(* interaction classes) keep the code's 0-based values.  Scores are kept   *)
(* in tenths (score 0.6 is 6), prior scores, being squares, in hundredths. *)
(* Boxes are <<x1, y1, x2, y2>> with positive area; an IoU is compared to  *)
(* a threshold num/den by cross-multiplication, so no rounding is involved.*)
(***************************************************************************)
EXTENDS Integers, Sequences, FiniteSets, TLC

VARIABLES
    pc,           \* position of the pipeline
    training,     \* nn.Module.training
    has_targets,  \* targets is not None
    detections,   \* forward's argument: one [boxes, labels, scores] per image
    targets,      \* one [boxes_h, boxes_o, object, labels] per image
    b_idx,        \* preprocess: index of the image in the loop
    cat,          \* preprocess: boxes/labels/scores after the append of line 96
    active_idx,   \* preprocess: the local active_idx
    results,      \* preprocess: the list it returns
    box_coords,   \* GraphHead.forward's arguments, one entry per image
    box_labels,
    box_scores,
    g_idx,        \* GraphHead.forward: b_idx of its loop
    counter,      \* GraphHead.forward: offset into box_features
    all_box_pair_features,
    all_boxes_h,
    all_boxes_o,
    all_object_class,
    all_labels,
    all_prior,
    output,       \* what postprocess, then forward, returns
    err,          \* the exception that ended the call, "" when none
    distributed,  \* InteractionHead.distributed
    workers,      \* loss computation: the state of every worker (rank)
    coll,         \* loss computation: what entered each collective call
    num_iter,     \* GraphHead.num_iter
    node_encodings,    \* GraphHead.forward: locals of the image in hand
    h_node_encodings,
    adjacency_matrix,
    messages_to_h,
    messages_to_o,
    rounds,       \* GraphHead.forward: iterations of the loop of line 575 done
    trainer,      \* utils.py: the learning engine in one training iteration
    unit          \* a fusion unit under construction

inputs == <<training, has_targets, detections, targets>>
prestate == <<b_idx, cat, active_idx, results>>
headargs == <<box_coords, box_labels, box_scores>>
headstate == <<g_idx, counter, all_box_pair_features, all_boxes_h, all_boxes_o,
               all_object_class, all_labels, all_prior>>
lossvars == <<distributed, workers, coll>>
mpvars == <<num_iter, node_encodings, h_node_encodings, adjacency_matrix,
            messages_to_h, messages_to_o, rounds>>
aux == <<trainer, unit>>
vars == <<pc, inputs, prestate, headargs, headstate, output, err, lossvars,
          mpvars, aux>>

---------------------------------------------------------------------------
(* Bounds of the model *)

\* most raw detections of one image drawn for preprocess
MaxDet == 2
\* most ground-truth pairs of one image drawn for preprocess
MaxGT == 1
\* most detections of the image GraphHead.forward is given directly
MaxNodes == 3
\* most detections and ground-truth pairs of an image drawn for the
\* ground-truth association
MaxAssocDet == 2
MaxAssocGT == 2
\* most images of a batch, most raw detections of one of its images
MaxBatch == 2
MaxFwdDet == 2
\* most workers of a distributed run, most box pairs in a worker's results
MaxWorkers == 2
MaxPairs == 1

(* Hyper-parameters of InteractionHead.__init__, instantiated small enough *)
(* for the caps to cut.                                                    *)
max_human == 2
max_object == 2

human_idx == 1
\* box_score_thresh = 0.2, in tenths
box_score_thresh == 2
\* box_nms_thresh = 0.5 as num/den
box_nms_thresh == <<1, 2>>
\* the score torch.ones gives an appended ground-truth box, in tenths
ScoreOne == 10

(* IoU(BoxP, BoxP) = 1, IoU(BoxP, BoxQ) = 12/24 = 0.5, IoU(., BoxR) = 0 *)
BoxP == <<0, 0, 4, 3>>
BoxQ == <<0, 0, 4, 6>>
BoxR == <<5, 5, 9, 9>>
Boxes == {BoxP, BoxQ, BoxR}

\* detector labels: the human class and one object class
DetLabels == {human_idx, 2}
\* detector scores in tenths: below, at and above box_score_thresh
DetScores == {1, 2, 6}

---------------------------------------------------------------------------
(* Tensor helpers *)

\* s[idx]: indexing a tensor with an index tensor
Gather(s, idx) == [k \in 1..Len(idx) |-> s[idx[k]]]

\* torch.nonzero(mask).squeeze(1): the indices of the true entries, ascending
Nonzero(mask) ==
    LET F[i \in 0..Len(mask)] ==
            IF i = 0 THEN <<>>
            ELSE IF mask[i] THEN Append(F[i - 1], i) ELSE F[i - 1]
    IN  F[Len(mask)]

\* h_idx[:k]
Prefix(s, k) == SubSeq(s, 1, k)

Max2(a, b) == IF a >= b THEN a ELSE b
Min2(a, b) == IF a <= b THEN a ELSE b

(* torchvision.ops.boxes.box_iou: inter / (area1 + area2 - inter) *)
BoxArea(b) == (b[3] - b[1]) * (b[4] - b[2])
BoxInter(a, b) ==
    Max2(Min2(a[3], b[3]) - Max2(a[1], b[1]), 0)
  * Max2(Min2(a[4], b[4]) - Max2(a[2], b[2]), 0)
BoxUnion(a, b) == BoxArea(a) + BoxArea(b) - BoxInter(a, b)
\* box_iou(a, b) > thr and box_iou(a, b) >= thr, thr = <<num, den>>
IoUAbove(a, b, thr) == BoxInter(a, b) * thr[2] > thr[1] * BoxUnion(a, b)
IoUAtLeast(a, b, thr) == BoxInter(a, b) * thr[2] >= thr[1] * BoxUnion(a, b)

(* torch.argsort(s, descending=True).  The sort is not stable, so the order *)
(* of equal scores is not determined: the set of the results it can give.  *)
RECURSIVE DescOrders(_, _)
DescOrders(s, S) ==
    IF S = {} THEN {<<>>}
    ELSE LET top == {i \in S : \A j \in S : s[i] >= s[j]}
         IN  UNION {{<<i>> \o r : r \in DescOrders(s, S \ {i})} : i \in top}
ArgsortDesc(s) == DescOrders(s, 1..Len(s))

(* torchvision.ops.boxes.batched_nms: boxes are visited by decreasing score *)
(* and one is dropped when a kept box of the same label overlaps it with   *)
(* IoU > thr; the kept indices are returned by decreasing score.           *)
RECURSIVE NmsGreedy(_, _, _, _, _, _)
NmsGreedy(boxes, labels, thr, order, k, kept) ==
    IF k > Len(order) THEN kept
    ELSE LET i == order[k]
             suppressed == \E m \in 1..Len(kept) :
                              /\ labels[kept[m]] = labels[i]
                              /\ IoUAbove(boxes[kept[m]], boxes[i], thr)
         IN  NmsGreedy(boxes, labels, thr, order, k + 1,
                       IF suppressed THEN kept ELSE Append(kept, i))
BatchedNms(boxes, scores, labels, thr) ==
    {NmsGreedy(boxes, labels, thr, o, 1, <<>>) : o \in ArgsortDesc(scores)}

---------------------------------------------------------------------------
(* InteractionHead.preprocess *)

\* lines 93-102: ground truth boxes go in front, with score one
AppendGT(detection, target) ==
    LET n == Len(target.boxes_h)
    IN  [boxes  |-> target.boxes_h \o target.boxes_o \o detection.boxes,
         scores |-> [i \in 1..(2 * n) |-> ScoreOne] \o detection.scores,
         labels |-> [i \in 1..n |-> human_idx] \o target.object
                        \o detection.labels]

\* lines 105-107
ScoreFilter(scores) ==
    Nonzero([i \in 1..Len(scores) |-> scores[i] >= box_score_thresh])

\* lines 120-127: cap both groups, humans to the top
CapHumanNoCap(h_idx) == h_idx
CapHuman(h_idx) ==
    IF Len(h_idx) > max_human THEN Prefix(h_idx, max_human) ELSE h_idx
CapObject(o_idx) ==
    IF Len(o_idx) > max_object THEN Prefix(o_idx, max_object) ELSE o_idx
HumanFirstSwapped(h_idx, o_idx) == o_idx \o h_idx
HumanFirst(h_idx, o_idx) == h_idx \o o_idx
KeepIdxUnpermuted(labels) == [i \in 1..Len(labels) |-> i]
KeepIdx(labels) ==
    LET h_idx == Nonzero([i \in 1..Len(labels) |-> labels[i] = human_idx])
        o_idx == Nonzero([i \in 1..Len(labels) |-> labels[i] # human_idx])
    IN  HumanFirst(CapHuman(h_idx), CapObject(o_idx))

\* argsort without descending=True
SortedIdxAscending(scores) ==
    {[k \in 1..Len(o) |-> o[Len(o) + 1 - k]] : o \in ArgsortDesc(scores)}
\* line 117
SortedIdx(scores) == ArgsortDesc(scores)

\* lines 86-115 of the loop body
PreFilter ==
    /\ pc = "pre_filter"
    /\ LET c == IF training
                THEN AppendGT(detections[b_idx], targets[b_idx])
                ELSE detections[b_idx]
           act == ScoreFilter(c.scores)
       IN  \E keep_idx \in BatchedNms(Gather(c.boxes, act),
                                      Gather(c.scores, act),
                                      Gather(c.labels, act), box_nms_thresh) :
               /\ cat' = c
               /\ active_idx' = Gather(act, keep_idx)
    /\ pc' = "pre_cap"
    /\ UNCHANGED <<inputs, mpvars, aux, b_idx, results, headargs, headstate, output, err,
                   lossvars>>

\* lines 116-135 of the loop body, and the loop's step
PreSortCap ==
    /\ pc = "pre_cap"
    /\ \E sorted_idx \in SortedIdx(Gather(cat.scores, active_idx)) :
          LET sorted == Gather(active_idx, sorted_idx)
              kept == Gather(sorted, KeepIdx(Gather(cat.labels, sorted)))
          IN  /\ active_idx' = kept
              /\ results' = Append(results,
                                [boxes  |-> Gather(cat.boxes, kept),
                                 labels |-> Gather(cat.labels, kept),
                                 scores |-> Gather(cat.scores, kept)])
    /\ IF b_idx < Len(detections)
       THEN b_idx' = b_idx + 1 /\ pc' = "pre_filter"
       ELSE b_idx' = b_idx /\ pc' = "pre_done"
    /\ UNCHANGED <<inputs, mpvars, aux, cat, headargs, headstate, output, err, lossvars>>

---------------------------------------------------------------------------
(* GraphHead *)

\* GraphHead.__init__: number of interaction classes, IoU threshold 0.5
num_cls == 3
fg_iou_thresh == <<1, 2>>
\* the dataset's map from an object class to its interaction classes: the
\* human class maps to one class, the object class to two
object_class_to_target_class == (1 :> <<0>>) @@ (2 :> <<1, 2>>)

Classes == 0..(num_cls - 1)
\* torch.zeros(n, num_cls): one row per pair, one column per class
Zeros(n) == [i \in 1..n |-> [c \in Classes |-> 0]]

\* m[rows, cols] = vals, entry by entry in order
RECURSIVE IndexPut(_, _, _, _)
IndexPut(m, idx, vals, k) ==
    IF k > Len(idx) THEN m
    ELSE IndexPut([m EXCEPT ![idx[k][1]][idx[k][2]] = vals[k]], idx, vals, k + 1)

\* torch.nonzero of an n x m boolean matrix given as an operator: the <<row,
\* column>> of its true entries, row-major
NonzeroPairs(n, m, Test(_, _)) ==
    LET cells == [k \in 1..(n * m) |-> <<((k - 1) \div m) + 1, ((k - 1) % m) + 1>>]
    IN  SelectSeq(cells, LAMBDA p : Test(p[1], p[2]))

MaxIoUAtLeast(a1, b1, a2, b2, thr) ==
    IoUAtLeast(a1, b1, thr) \/ IoUAtLeast(a2, b2, thr)
\* torch.min of two IoUs, then >= thr: the smaller fraction is the one compared
MinIoUAtLeast(a1, b1, a2, b2, thr) ==
    IF BoxInter(a1, b1) * BoxUnion(a2, b2) <= BoxInter(a2, b2) * BoxUnion(a1, b1)
    THEN IoUAtLeast(a1, b1, thr)
    ELSE IoUAtLeast(a2, b2, thr)

\* lines 455-458: is ground-truth entry j a match of candidate pair i
GtMatch(bh, bo, gh, go) == MinIoUAtLeast(bh, gh, bo, go, fg_iou_thresh)

\* GraphHead.associate_with_ground_truth, lines 452-462
AssociateWithGroundTruth(boxes_h, boxes_o, target) ==
    LET n == Len(boxes_h)
        xy == NonzeroPairs(n, Len(target.boxes_h),
                  LAMBDA i, j : GtMatch(boxes_h[i], boxes_o[i],
                                        target.boxes_h[j], target.boxes_o[j]))
        idx == [k \in 1..Len(xy) |-> <<xy[k][1], target.labels[xy[k][2]]>>]
    IN  IndexPut(Zeros(n), idx, [k \in 1..Len(xy) |-> 1], 1)

\* lines 480-485: <<pair_idx[k], flat_target_idx[k]>> for every k
RECURSIVE FlatTargets(_, _)
FlatTargets(target_cls_idx, i) ==
    IF i > Len(target_cls_idx) THEN <<>>
    ELSE [t \in 1..Len(target_cls_idx[i]) |-> <<i, target_cls_idx[i][t]>>]
            \o FlatTargets(target_cls_idx, i + 1)

Unsquared(scores, x) == [k \in 1..Len(x) |-> scores[x[k]]]
\* scores[x].pow(2), lines 475-476
Squared(scores, x) == [k \in 1..Len(x) |-> scores[x[k]] * scores[x[k]]]

TargetClsIdxFirstOnly(y, object_class) ==
    [k \in 1..Len(y) |->
        Prefix(object_class_to_target_class[object_class[y[k]]], 1)]
\* line 480: the interaction classes of the object of every pair
TargetClsIdx(y, object_class) ==
    [k \in 1..Len(y) |-> object_class_to_target_class[object_class[y[k]]]]

\* GraphHead.compute_prior_scores, lines 472-490.  torch.stack([prior_h,
\* prior_o]): element 1 is the code's p[0], the human prior
ComputePriorScores(x, y, scores, object_class) ==
    LET s_h == Squared(scores, x)
        s_o == Squared(scores, y)
        idx == FlatTargets(TargetClsIdx(y, object_class), 1)
        prior_h == IndexPut(Zeros(Len(x)), idx,
                            [k \in 1..Len(idx) |-> s_h[idx[k][1]]], 1)
        prior_o == IndexPut(Zeros(Len(x)), idx,
                            [k \in 1..Len(idx) |-> s_o[idx[k][1]]], 1)
    IN  <<prior_h, prior_o>>

\* line 532
NumHuman(labels) ==
    Cardinality({i \in 1..Len(labels) : labels[i] = human_idx})
SkipImageNoHumanOnly(n_h, n) == n_h = 0
\* line 535
SkipImage(n_h, n) == n_h = 0 \/ n <= 1
HumansOnTopFirstOnly(labels, n_h) == labels[1] = human_idx
\* line 546: torch.all(labels[:n_h] == human_idx)
HumansOnTop(labels, n_h) == \A i \in 1..n_h : labels[i] = human_idx
KeepPairsAll(n_h, n) == NonzeroPairs(n_h, n, LAMBDA x, y : TRUE)
KeepPairsHumanObject(n_h, n) == NonzeroPairs(n_h, n, LAMBDA x, y : y > n_h)
\* lines 553-558: the pairs <<x_keep[k], y_keep[k]>> of the meshgrid with x != y
KeepPairs(n_h, n) == NonzeroPairs(n_h, n, LAMBDA x, y : x # y)

---------------------------------------------------------------------------
(* GraphHead.forward: message passing, lines 549-608.  The values of the   *)
(* encodings are the work of learned layers; an encoding is kept as the    *)
(* row of box_features it started from, the layer that produced it and the *)
(* number of updates it has been through.  An attention weight is kept as  *)
(* the pair of encodings it was computed from, a message as the terms that *)
(* are summed over dim=1: each { weight, from }.                           *)

\* line 549: box_features[counter: counter+n]
BoxFeatureRows(c, n) ==
    [i \in 1..n |-> [row |-> c + i, by |-> "box_head", ver |-> 0]]

\* lines 553-556 and 564: the meshgrid, flattened row-major
MeshPairs(n_h, n) == NonzeroPairs(n_h, n, LAMBDA x, y : TRUE)

\* line 573: torch.ones(n_h, n); no weight has been computed
Ones(n_h, n) == [i \in 1..n_h |-> [j \in 1..n |-> <<>>]]

\* lines 577-584: one weight per flattened pair from h_node_encodings[x] and
\* node_encodings[y], reshaped to (n_h, n)
AdjacencyMatrix(h_enc, n_enc) ==
    LET n_h == Len(h_enc)
        n == Len(n_enc)
        xy == MeshPairs(n_h, n)
        weights == [k \in 1..Len(xy) |-> <<h_enc[xy[k][1]], n_enc[xy[k][2]]>>]
    IN  [i \in 1..n_h |-> [j \in 1..n |-> weights[(i - 1) * n + j]]]

\* lines 587-593: for human i, softmax over dim=1 of row i of the adjacency
\* times obj_to_sub(node_encodings)[i, j], summed over j
MessagesToH(adj, n_enc) ==
    [i \in 1..Len(adj) |->
        [j \in 1..Len(n_enc) |-> [weight |-> adj[i][j], from |-> n_enc[j]]]]

\* lines 594-596: norm_h(h_node_encodings + messages_to_h)
NormH(h_enc, messages) ==
    [i \in 1..Len(messages) |->
        [row |-> h_enc[i].row, by |-> "norm_h", ver |-> h_enc[i].ver + 1]]

\* lines 599-605: for node j, softmax over dim=1 of row j of the transposed
\* adjacency times sub_to_obj(h_node_encodings)[i, j], summed over i
MessagesToO(adj, h_enc, n) ==
    [j \in 1..n |->
        [i \in 1..Len(h_enc) |-> [weight |-> adj[i][j], from |-> h_enc[i]]]]

\* lines 606-608: norm_o(node_encodings + messages_to_o)
NormO(n_enc, messages) ==
    [j \in 1..Len(messages) |->
        [row |-> n_enc[j].row, by |-> "norm_o", ver |-> n_enc[j].ver + 1]]

HumanUpdateInPlace(n_enc, h_enc) ==
    [j \in 1..Len(n_enc) |-> IF j <= Len(h_enc) THEN h_enc[j] ELSE n_enc[j]]
\* lines 551 and 594: h_node_encodings is rebound to the output of norm_h;
\* the rows of node_encodings it was sliced from are not written
HumanUpdateLeaves(n_enc, h_enc) == n_enc

\* line 606: node_encodings is rebound to the output of norm_o;
\* h_node_encodings is not written
ObjectUpdateLeaves(h_enc, n_enc) == h_enc

LoopOneMore(done, iters) == done <= iters
\* line 575: for _ in range(self.num_iter)
LoopContinues(done, iters) == done < iters

\* the locals of the image in hand
Locals ==
    [node_encodings |-> node_encodings, h_node_encodings |-> h_node_encodings,
     adjacency_matrix |-> adjacency_matrix, messages_to_h |-> messages_to_h,
     messages_to_o |-> messages_to_o, rounds |-> rounds]

SetLocals(s) ==
    /\ node_encodings' = s.node_encodings
    /\ h_node_encodings' = s.h_node_encodings
    /\ adjacency_matrix' = s.adjacency_matrix
    /\ messages_to_h' = s.messages_to_h
    /\ messages_to_o' = s.messages_to_o
    /\ rounds' = s.rounds

\* lines 549-551 and 573: the locals when the loop of line 575 is entered
LoopEntry(c, n_h, n) ==
    [node_encodings |-> BoxFeatureRows(c, n),
     h_node_encodings |-> Prefix(BoxFeatureRows(c, n), n_h),
     adjacency_matrix |-> Ones(n_h, n),
     messages_to_h |-> <<>>, messages_to_o |-> <<>>, rounds |-> 0]

\* lines 576-585
RoundAdjacency(s) ==
    [s EXCEPT !.adjacency_matrix =
                  AdjacencyMatrix(s.h_node_encodings, s.node_encodings)]

\* lines 586-596
RoundHuman(s) ==
    LET m == MessagesToH(s.adjacency_matrix, s.node_encodings)
        h == NormH(s.h_node_encodings, m)
    IN  [s EXCEPT !.messages_to_h = m,
                  !.h_node_encodings = h,
                  !.node_encodings = HumanUpdateLeaves(s.node_encodings, h)]

\* lines 598-608, and the iteration is over
RoundObject(s) ==
    LET m == MessagesToO(s.adjacency_matrix, s.h_node_encodings,
                         Len(s.node_encodings))
        o == NormO(s.node_encodings, m)
    IN  [s EXCEPT !.messages_to_o = m,
                  !.node_encodings = o,
                  !.h_node_encodings = ObjectUpdateLeaves(s.h_node_encodings, o),
                  !.rounds = s.rounds + 1]

RECURSIVE MessagePassing(_, _)
\* lines 575-608: the whole loop
MessagePassing(s, iters) ==
    IF LoopContinues(s.rounds, iters)
    THEN MessagePassing(RoundObject(RoundHuman(RoundAdjacency(s))), iters)
    ELSE s

\* lines 535-545: the image is skipped, six empty entries are appended
GraphSkip ==
    /\ pc = "graph"
    /\ g_idx <= Len(box_coords)
    /\ SkipImage(NumHuman(box_labels[g_idx]), Len(box_coords[g_idx]))
    /\ all_box_pair_features' = Append(all_box_pair_features, <<>>)
    /\ all_boxes_h' = Append(all_boxes_h, <<>>)
    /\ all_boxes_o' = Append(all_boxes_o, <<>>)
    /\ all_object_class' = Append(all_object_class, <<>>)
    /\ all_prior' = Append(all_prior, <<<<>>, <<>>>>)
    /\ all_labels' = Append(all_labels, <<>>)
    /\ g_idx' = g_idx + 1
    /\ UNCHANGED <<pc, inputs, mpvars, aux, prestate, headargs, counter, output, err, lossvars>>

\* lines 546-634: an image that is not skipped.  A pair feature is kept as
\* the rows of box_features its two node encodings come from (line 549), the
\* values being the work of learned layers.
GraphImage ==
    /\ pc = "graph"
    /\ g_idx <= Len(box_coords)
    /\ LET coords == box_coords[g_idx]
           labels == box_labels[g_idx]
           scores == box_scores[g_idx]
           n == Len(coords)
           n_h == NumHuman(labels)
           keep == KeepPairs(n_h, n)
           x_keep == [k \in 1..Len(keep) |-> keep[k][1]]
           y_keep == [k \in 1..Len(keep) |-> keep[k][2]]
           entry == LoopEntry(counter, n_h, n)
           final == MessagePassing(entry, num_iter)
       IN  /\ ~SkipImage(n_h, n)
           /\ IF ~HumansOnTop(labels, n_h)
              THEN /\ err' = "ValueError: Human detections are not permuted to the top"
                   /\ pc' = "raised"
                   /\ UNCHANGED headstate
                   /\ SetLocals(Locals)
              ELSE IF Len(keep) = 0
              THEN /\ err' = "ValueError: There are no valid human-object pairs"
                   /\ pc' = "raised"
                   /\ UNCHANGED headstate
                   /\ SetLocals([Locals EXCEPT
                          !.node_encodings = entry.node_encodings,
                          !.h_node_encodings = entry.h_node_encodings])
              ELSE /\ IF has_targets
                      THEN all_labels' = Append(all_labels,
                               AssociateWithGroundTruth(Gather(coords, x_keep),
                                   Gather(coords, y_keep), targets[g_idx]))
                      ELSE all_labels' = all_labels
                   /\ SetLocals(final)
                   /\ all_box_pair_features' = Append(all_box_pair_features,
                          [k \in 1..Len(keep) |->
                              <<final.h_node_encodings[x_keep[k]].row,
                                final.node_encodings[y_keep[k]].row>>])
                   /\ all_boxes_h' = Append(all_boxes_h, Gather(coords, x_keep))
                   /\ all_boxes_o' = Append(all_boxes_o, Gather(coords, y_keep))
                   /\ all_object_class' = Append(all_object_class,
                                                 Gather(labels, y_keep))
                   /\ all_prior' = Append(all_prior,
                          ComputePriorScores(x_keep, y_keep, scores, labels))
                   /\ counter' = counter + n
                   /\ g_idx' = g_idx + 1
                   /\ UNCHANGED <<pc, err>>
    /\ UNCHANGED <<inputs, num_iter, aux, prestate, headargs, output, lossvars>>

---------------------------------------------------------------------------
(* InteractionHead.postprocess, the losses and forward *)

RECURSIVE SumOver(_, _)
SumOver(f, S) ==
    IF S = {} THEN 0
    ELSE LET c == CHOOSE c \in S : TRUE IN f[c] + SumOver(f, S \ {c})

RECURSIVE Concat(_, _)
\* torch.cat of the sequences ss[k], k = i..Len(ss)
Concat(ss, i) == IF i > Len(ss) THEN <<>> ELSE ss[i] \o Concat(ss, i + 1)

ValidEntriesObjectPrior(p) ==
    NonzeroPairs(Len(p[1]), num_cls, LAMBDA i, c : p[2][i][c - 1] # 0)
\* line 216: the <<pair, class>> of the non-zero entries of the human prior
\* p[0], row-major; column c of the model is class c - 1
ValidEntries(p) ==
    NonzeroPairs(Len(p[1]), num_cls, LAMBDA i, c : p[1][i][c - 1] # 0)

\* lines 208-209 and the zip of line 212: zip stops at its shortest argument.
\* weights and scores are split into one chunk per entry of boxes_h.
LabelsLen == IF Len(all_labels) = 0 THEN Len(all_boxes_h) ELSE Len(all_labels)
ZipLen ==
    Min2(Len(all_boxes_h),
         Min2(Len(all_prior),
              Min2(Len(all_boxes_o), Min2(Len(all_object_class), LabelsLen))))

\* l[x, y] of line 227 indexes past the rows of l
LabelIndexError(b) ==
    /\ Len(all_labels) # 0
    /\ \E k \in 1..Len(ValidEntries(all_prior[b])) :
          ValidEntries(all_prior[b])[k][1] > Len(all_labels[b])

\* lines 216-228: the result of one image.  "scores" keeps the factor of the
\* score that the priors give, p[:, x, y].prod(dim=0); the two sigmoid
\* factors are outputs of the learned classifiers.
ResultDict(b) ==
    LET p == all_prior[b]
        xy == ValidEntries(p)
        x == [k \in 1..Len(xy) |-> xy[k][1]]
        y == [k \in 1..Len(xy) |-> xy[k][2] - 1]
        base == [boxes_h |-> all_boxes_h[b], boxes_o |-> all_boxes_o[b],
                 index |-> x, prediction |-> y,
                 scores |-> [k \in 1..Len(xy) |->
                                p[1][x[k]][y[k]] * p[2][x[k]][y[k]]],
                 object |-> all_object_class[b],
                 prior |-> <<[k \in 1..Len(xy) |-> p[1][x[k]][y[k]]],
                             [k \in 1..Len(xy) |-> p[2][x[k]][y[k]]]>>]
    IN  IF Len(all_labels) = 0 THEN base
        ELSE LET l == all_labels[b]
             IN  base @@
                 [labels |-> [k \in 1..Len(xy) |-> l[x[k]][y[k]]],
                  binary_labels |->
                     [i \in 1..Len(l) |-> Min2(SumOver(l[i], Classes), 1)]]

\* lines 149-150 and 168-170: the number of positive labels of this worker
CountNonzero(labels) ==
    Cardinality({k \in 1..Len(labels) : labels[k] # 0})
HoiPositives(res) ==
    CountNonzero(Concat([b \in 1..Len(res) |-> res[b].labels], 1))
InteractivenessPositives(res) ==
    CountNonzero(Concat([b \in 1..Len(res) |-> res[b].binary_labels], 1))

\* loss / n_p on tensors, n_p = num / den: dividing by zero raises nothing,
\* it gives nan for a zero sum and inf for any other
Quotient(num, den) == IF num = 0 THEN "nan_or_inf" ELSE "finite"

\* lines 157-160: the sum-reduced focal loss over n_p = num / den
LossOver(name, num, den) ==
    [sum |-> name, n_p |-> <<num, den>>, value |-> Quotient(num, den)]

\* forward, lines 274-284: GraphHead.forward is called on preprocess' output
ForwardCallHead ==
    /\ pc = "pre_done"
    /\ box_coords' = [b \in 1..Len(results) |-> results[b].boxes]
    /\ box_labels' = [b \in 1..Len(results) |-> results[b].labels]
    /\ box_scores' = [b \in 1..Len(results) |-> results[b].scores]
    /\ pc' = "graph"
    /\ UNCHANGED <<inputs, mpvars, aux, prestate, headstate, output, err, lossvars>>

\* forward, lines 286-294 with postprocess, lines 202-232, once the loop of
\* GraphHead.forward is over
Postprocess ==
    /\ pc = "graph"
    /\ g_idx > Len(box_coords)
    /\ IF \E b \in 1..ZipLen : LabelIndexError(b)
       THEN /\ err' = "IndexError"
            /\ pc' = "raised"
            /\ output' = output
       ELSE /\ output' = [b \in 1..ZipLen |-> ResultDict(b)]
            /\ pc' = IF training THEN "loss" ELSE "done"
            /\ err' = err
    /\ UNCHANGED <<inputs, mpvars, aux, prestate, headargs, headstate, lossvars>>

\* forward, lines 296-303, not distributed: both losses, appended last
ForwardLoss ==
    /\ pc = "loss"
    /\ output' = Append(output,
          [hoi_loss |-> LossOver("hoi", HoiPositives(output), 1),
           interactiveness_loss |->
               LossOver("interactiveness", InteractivenessPositives(output), 1)])
    /\ pc' = "done"
    /\ UNCHANGED <<inputs, mpvars, aux, prestate, headargs, headstate, err, lossvars>>

---------------------------------------------------------------------------
(* Inputs *)

SeqsUpTo(S, n) == UNION {[1..k -> S] : k \in 0..n}

\* raw detections of one image
RawDetections ==
    UNION {[boxes : [1..k -> Boxes], labels : [1..k -> DetLabels],
            scores : [1..k -> DetScores]] : k \in 0..MaxDet}

\* the targets of one image, as preprocess reads them (it does not read
\* "labels"): ground-truth humans on BoxP, their objects on BoxR
PreTargets ==
    UNION {[boxes_h : [1..k -> {BoxP}], boxes_o : [1..k -> {BoxR}],
            object : [1..k -> {2}], labels : [1..k -> {0}]] : k \in 0..MaxGT}

NoTarget == [boxes_h |-> <<>>, boxes_o |-> <<>>, object |-> <<>>, labels |-> <<>>]
NoCat == [boxes |-> <<>>, labels |-> <<>>, scores |-> <<>>]

\* GraphHead.forward not called yet
HeadIdle ==
    /\ box_coords = <<>> /\ box_labels = <<>> /\ box_scores = <<>>
    /\ g_idx = 1 /\ counter = 0
    /\ all_box_pair_features = <<>> /\ all_boxes_h = <<>>
    /\ all_boxes_o = <<>> /\ all_object_class = <<>>
    /\ all_labels = <<>> /\ all_prior = <<>>
    /\ output = <<>> /\ err = ""

\* no loss computation under way
LossIdle == distributed = FALSE /\ workers = <<>> /\ coll = <<>>

\* GraphHead.__init__, line 375: num_iter=1
DefaultNumIter == 1
\* no image in hand
NoLocals ==
    /\ node_encodings = <<>> /\ h_node_encodings = <<>>
    /\ adjacency_matrix = <<>>
    /\ messages_to_h = <<>> /\ messages_to_o = <<>> /\ rounds = 0
\* no training iteration, no fusion unit under construction
NoTrainer == [engine |-> "none"]
NoUnit == [cls |-> "none"]
AuxIdle == trainer = NoTrainer /\ unit = NoUnit

InitPre ==
    /\ pc = "pre_filter"
    /\ training \in BOOLEAN
    /\ has_targets = training
    /\ detections \in [1..1 -> RawDetections]
    /\ targets \in [1..1 -> IF training THEN PreTargets ELSE {NoTarget}]
    /\ b_idx = 1
    /\ cat = NoCat
    /\ active_idx = <<>>
    /\ results = <<>>
    /\ HeadIdle
    /\ LossIdle
    /\ num_iter = DefaultNumIter /\ NoLocals /\ AuxIdle

NextPre == PreFilter \/ PreSortCap

SpecPre == InitPre /\ [][NextPre]_vars

\* preprocess not called: GraphHead.forward is given its arguments directly
PreIdle ==
    /\ detections = <<>>
    /\ b_idx = 1 /\ cat = NoCat /\ active_idx = <<>> /\ results = <<>>

HeadStart ==
    /\ pc = "graph"
    /\ g_idx = 1 /\ counter = 0
    /\ all_box_pair_features = <<>> /\ all_boxes_h = <<>>
    /\ all_boxes_o = <<>> /\ all_object_class = <<>>
    /\ all_labels = <<>> /\ all_prior = <<>>
    /\ output = <<>> /\ err = ""

\* boxes side by side, no two overlapping
BoxAt(i) == <<5 * i, 0, 5 * i + 4, 3>>

\* one image, in any label order, with scores 0, 0.3 and 0.6; no targets
PriorImages ==
    UNION {[coords : {[i \in 1..k |-> BoxAt(i)]}, labels : [1..k -> DetLabels],
            scores : [1..k -> {0, 3, 6}]] : k \in 0..MaxNodes}

InitPrior ==
    /\ training = FALSE /\ has_targets = FALSE
    /\ targets = <<NoTarget>>
    /\ PreIdle /\ HeadStart /\ LossIdle
    /\ num_iter = DefaultNumIter /\ NoLocals /\ AuxIdle
    /\ \E im \in PriorImages :
          /\ box_coords = <<im.coords>>
          /\ box_labels = <<im.labels>>
          /\ box_scores = <<im.scores>>

NextHead == GraphSkip \/ GraphImage \/ Postprocess

SpecPrior == InitPrior /\ [][NextHead]_vars

\* one image with boxes among BoxP, BoxQ, BoxR and its ground truth: humans
\* on BoxP, objects on BoxP or BoxR, interaction classes 0 and 1
AssocImages ==
    UNION {[coords : [1..k -> Boxes], labels : [1..k -> DetLabels],
            scores : {[i \in 1..k |-> 6]}] : k \in 0..MaxAssocDet}
AssocTargets ==
    UNION {[boxes_h : [1..k -> {BoxP}], boxes_o : [1..k -> {BoxP, BoxR}],
            object : {[i \in 1..k |-> 2]}, labels : [1..k -> {0, 1}]]
           : k \in 0..MaxAssocGT}

InitAssoc ==
    /\ training = FALSE /\ has_targets = TRUE
    /\ targets \in [1..1 -> AssocTargets]
    /\ PreIdle /\ HeadStart /\ LossIdle
    /\ num_iter = DefaultNumIter /\ NoLocals /\ AuxIdle
    /\ \E im \in AssocImages :
          /\ box_coords = <<im.coords>>
          /\ box_labels = <<im.labels>>
          /\ box_scores = <<im.scores>>

SpecAssoc == InitAssoc /\ [][NextHead]_vars

\* InteractionHead.forward on a batch: raw detections side by side with
\* scores 0.8, 0.7, ... in input order; the targets, when given, are empty for every image or hold one
\* human-object pair for every image
FwdDetections ==
    UNION {[boxes : {[i \in 1..k |-> BoxAt(i)]}, labels : [1..k -> DetLabels],
            scores : {[i \in 1..k |-> 9 - i]}] : k \in 0..MaxFwdDet}
FwdTarget ==
    [boxes_h |-> <<BoxAt(1)>>, boxes_o |-> <<BoxAt(2)>>, object |-> <<2>>,
     labels |-> <<1>>]

InitForward ==
    /\ pc = "pre_filter"
    /\ \E mode \in {<<FALSE, FALSE>>, <<FALSE, TRUE>>, <<TRUE, TRUE>>} :
          training = mode[1] /\ has_targets = mode[2]
    /\ \E B \in 1..MaxBatch :
          /\ detections \in [1..B -> FwdDetections]
          /\ \E t \in (IF has_targets THEN {NoTarget, FwdTarget} ELSE {NoTarget}) :
                targets = [b \in 1..B |-> t]
    /\ b_idx = 1 /\ cat = NoCat /\ active_idx = <<>> /\ results = <<>>
    /\ HeadIdle /\ LossIdle
    /\ num_iter = DefaultNumIter /\ NoLocals /\ AuxIdle

NextForward ==
    \/ PreFilter \/ PreSortCap \/ ForwardCallHead
    \/ GraphSkip \/ GraphImage \/ Postprocess \/ ForwardLoss

SpecForward == InitForward /\ [][NextForward]_vars

---------------------------------------------------------------------------
(* Properties of InteractionHead.preprocess, under SpecPre *)

IsHuman(r, i) == r.labels[i] = human_idx
HumanCount(r) == Cardinality({i \in 1..Len(r.labels) : IsHuman(r, i)})
ObjectCount(r) == Cardinality({i \in 1..Len(r.labels) : ~IsHuman(r, i)})
\* the indices of cat that survive thresholding and NMS in some run of NMS
SurvivorSets ==
    LET act == ScoreFilter(cat.scores)
    IN  {{act[keep_idx[k]] : k \in 1..Len(keep_idx)} :
            keep_idx \in BatchedNms(Gather(cat.boxes, act),
                                    Gather(cat.scores, act),
                                    Gather(cat.labels, act), box_nms_thresh)}

\* C4: in every image's output of preprocess, each entry labelled human_idx
\* comes before each entry with another label.
C4_HumansFirst ==
    \A b \in 1..Len(results) :
        \A i, j \in 1..Len(results[b].labels) :
            (i < j /\ IsHuman(results[b], j)) => IsHuman(results[b], i)

\* reached: an output holding a human and an object where the human has the
\* lower score, so the score order alone would have put the object first
C4_Witness ==
    /\ pc = "pre_done"
    /\ \E i, j \in 1..Len(results[1].labels) :
           /\ IsHuman(results[1], i) /\ ~IsHuman(results[1], j)
           /\ results[1].scores[i] < results[1].scores[j]

\* C5: an image's output of preprocess holds at most max_human human entries
\* and at most max_object other entries, so at most max_human + max_object;
\* an image with no survivor in a group gets an empty group, and an output.
C5_Capped ==
    /\ \A b \in 1..Len(results) :
           /\ HumanCount(results[b]) <= max_human
           /\ ObjectCount(results[b]) <= max_object
           /\ Len(results[b].labels) <= max_human + max_object
           /\ Len(results[b].boxes) = Len(results[b].labels)
           /\ Len(results[b].scores) = Len(results[b].labels)
    /\ pc = "pre_done" => Len(results) = Len(detections)

\* reached: more than max_human humans survived NMS and the output holds
\* max_human of them
C5_Witness ==
    /\ pc = "pre_done"
    /\ HumanCount(results[1]) = max_human
    /\ \E S \in SurvivorSets :
           Cardinality({i \in S : cat.labels[i] = human_idx}) > max_human

\* reached: no human survives, the object group is not empty
C5_WitnessEmptyGroup ==
    /\ pc = "pre_done"
    /\ HumanCount(results[1]) = 0
    /\ ObjectCount(results[1]) > 0

\* the step of lines 116-135 keeps, of the group G of the survivors in
\* active_idx, the Min(|G|, cap) best: nothing dropped beats anything kept
TopOfGroup(G, kept, cap) ==
    /\ kept \subseteq G
    /\ Cardinality(kept) = Min2(Cardinality(G), cap)
    /\ \A i \in G \ kept : \A j \in kept : cat.scores[i] <= cat.scores[j]
GroupOf(idx, human) ==
    {idx[k] : k \in {m \in 1..Len(idx) : (cat.labels[idx[m]] = human_idx) = human}}
SortedGroups(r) ==
    \A i, j \in 1..Len(r.labels) :
        (i < j /\ IsHuman(r, i) = IsHuman(r, j)) => r.scores[i] >= r.scores[j]

\* C6: in the output of preprocess the scores of the human group and of the
\* non-human group are each non-increasing in output order, and each group
\* is made of the highest-scoring survivors of thresholding and NMS of that
\* group, as many as the cap allows.
C6_SortedTopK ==
    [][pc = "pre_cap" =>
        /\ SortedGroups(results'[Len(results')])
        /\ results'[Len(results')].scores = Gather(cat.scores, active_idx')
        /\ TopOfGroup(GroupOf(active_idx, TRUE), GroupOf(active_idx', TRUE),
                      max_human)
        /\ TopOfGroup(GroupOf(active_idx, FALSE), GroupOf(active_idx', FALSE),
                      max_object)]_vars

\* reached: the cap dropped a human survivor, and the human group kept holds
\* two different scores
C6_Witness ==
    /\ pc = "pre_done"
    /\ HumanCount(results[1]) = max_human
    /\ \E S \in SurvivorSets :
           Cardinality({i \in S : cat.labels[i] = human_idx}) > max_human
    /\ \E i, j \in 1..Len(results[1].labels) :
           /\ IsHuman(results[1], i) /\ IsHuman(results[1], j)
           /\ results[1].scores[i] > results[1].scores[j]

---------------------------------------------------------------------------
(* Properties of GraphHead.forward and postprocess *)

\* image b of GraphHead.forward's arguments
NH(b) == Cardinality({i \in 1..Len(box_labels[b]) : box_labels[b][i] = human_idx})
NB(b) == Len(box_coords[b])
Degenerate(b) == NH(b) = 0 \/ NB(b) <= 1
HumansAreFirst(b) ==
    \A i, j \in 1..NB(b) :
        (i < j /\ box_labels[b][j] = human_idx) => box_labels[b][i] = human_idx
\* the images the loop of GraphHead.forward has gone through
Processed == 1..(g_idx - 1)

\* C1: for an image with n_h >= 1 humans among n >= 2 detections, humans
\* first, GraphHead.forward emits n_h * n - n_h pairs: every <<human index,
\* generic index>> of the cross product but the n_h self-pairs, each once,
\* and no pair has its human index equal to its generic index.
C1_PairCount ==
    \A b \in Processed :
        (~Degenerate(b) /\ HumansAreFirst(b)) =>
            LET f == all_box_pair_features[b]
                pairs == {f[k] : k \in 1..Len(f)}
            IN  /\ Len(f) = NH(b) * NB(b) - NH(b)
                /\ Len(all_boxes_h[b]) = Len(f)
                /\ Len(all_boxes_o[b]) = Len(f)
                /\ Len(all_object_class[b]) = Len(f)
                /\ Len(all_prior[b][1]) = Len(f)
                /\ Cardinality(pairs) = Len(f)
                /\ pairs = {p \in (1..NH(b)) \X (1..NB(b)) : p[1] # p[2]}
                /\ \A k \in 1..Len(f) :
                      /\ all_boxes_h[b][k] = box_coords[b][f[k][1]]
                      /\ all_boxes_o[b][k] = box_coords[b][f[k][2]]

\* reached: two humans among three detections give four pairs
C1_Witness ==
    /\ 1 \in Processed
    /\ NH(1) = 2 /\ NB(1) = 3
    /\ Len(all_boxes_h[1]) = 4

\* C2: for an image with no human or at most one detection, wherever it is
\* in the batch, GraphHead.forward appends a zero-length entry to each of
\* its six lists, raises nothing and goes on to the next image.
C2_SkipAppendsEmpty ==
    [][(pc = "graph" /\ g_idx <= Len(box_coords) /\ Degenerate(g_idx)) =>
        /\ pc' = "graph" /\ err' = "" /\ g_idx' = g_idx + 1
        /\ Len(all_box_pair_features') = Len(all_box_pair_features) + 1
        /\ Len(all_boxes_h') = Len(all_boxes_h) + 1
        /\ Len(all_boxes_o') = Len(all_boxes_o) + 1
        /\ Len(all_object_class') = Len(all_object_class) + 1
        /\ Len(all_prior') = Len(all_prior) + 1
        /\ Len(all_labels') = Len(all_labels) + 1
        /\ Len(all_box_pair_features'[Len(all_box_pair_features')]) = 0
        /\ Len(all_boxes_h'[Len(all_boxes_h')]) = 0
        /\ Len(all_boxes_o'[Len(all_boxes_o')]) = 0
        /\ Len(all_object_class'[Len(all_object_class')]) = 0
        /\ Len(all_prior'[Len(all_prior')]) = 2
        /\ Len(all_prior'[Len(all_prior')][1]) = 0
        /\ Len(all_prior'[Len(all_prior')][2]) = 0
        /\ Len(all_labels'[Len(all_labels')]) = 0]_vars

\* reached: a degenerate first image was skipped and the second image, not
\* degenerate, got its pairs
C2_Witness ==
    /\ pc = "done"
    /\ Len(box_coords) = 2
    /\ Degenerate(1) /\ ~Degenerate(2)
    /\ Len(all_boxes_h[1]) = 0
    /\ Len(all_boxes_h[2]) > 0

\* reached: the degenerate image is the last of the batch
C2_WitnessLast ==
    /\ pc = "done"
    /\ Len(box_coords) = 2
    /\ ~Degenerate(1) /\ Degenerate(2)
    /\ Len(all_boxes_h[2]) = 0

IsLossDict(r) == DOMAIN r = {"hoi_loss", "interactiveness_loss"}

\* C3: InteractionHead.forward returns one result record per input image, in
\* input order, and in training mode one more entry, the last, holding the
\* two losses; the six lists GraphHead.forward returns have one entry per
\* image as postprocess zips them (an empty list of labels stands for no
\* labels, lines 208-209).
C3_OneResultPerImage ==
    /\ pc # "raised"
    /\ (pc = "graph" /\ g_idx > Len(box_coords)) =>
          /\ Len(all_box_pair_features) = Len(box_coords)
          /\ Len(all_boxes_h) = Len(box_coords)
          /\ Len(all_boxes_o) = Len(box_coords)
          /\ Len(all_object_class) = Len(box_coords)
          /\ Len(all_prior) = Len(box_coords)
          /\ LabelsLen = Len(box_coords)
    /\ pc = "done" =>
          /\ Len(output) = Len(detections) + (IF training THEN 1 ELSE 0)
          /\ \A b \in 1..Len(detections) :
                /\ ~IsLossDict(output[b])
                /\ output[b].boxes_h = all_boxes_h[b]
          /\ training => IsLossDict(output[Len(output)])

\* C7: postprocess retains, for every image, exactly the <<pair, class>>
\* entries whose human prior is not zero, each once and each with a score;
\* so no class outside the interaction classes of the pair's object class
\* is scored.
C7_RetainedIffPrior ==
    pc = "done" =>
        \A b \in 1..Len(output) :
            LET r == output[b]
                kept == {<<r.index[k], r.prediction[k]>> : k \in 1..Len(r.index)}
            IN  /\ Len(r.prediction) = Len(r.index)
                /\ Len(r.scores) = Len(r.index)
                /\ Cardinality(kept) = Len(r.index)
                /\ kept = {e \in (1..Len(all_prior[b][1])) \X Classes :
                              all_prior[b][1][e[1]][e[2]] # 0}
                /\ \A k \in 1..Len(r.index) :
                      \E t \in 1..Len(object_class_to_target_class[r.object[r.index[k]]]) :
                          object_class_to_target_class[r.object[r.index[k]]][t]
                              = r.prediction[k]

\* reached: an image whose output retains an entry and leaves one out for a
\* class that the object's class is mapped to (the human's score is zero)
C7_Witness ==
    /\ pc = "done"
    /\ Len(output) = 1
    /\ Len(output[1].index) > 0
    /\ \E i \in 1..Len(all_prior[1][1]) :
          /\ all_prior[1][1][i][1] = 0
          /\ all_prior[1][2][i][1] # 0

\* C8: for a pair <<x, y>> and a class c of compute_prior_scores: when c is
\* not an interaction class of the label of y, both priors of the entry are
\* zero; when it is, the human prior is scores[x] squared and the object
\* prior scores[y] squared, for every class the label is mapped to.
C8_PriorScores ==
    \A b \in Processed :
        (~Degenerate(b) /\ HumansAreFirst(b)) =>
            \A k \in 1..Len(all_prior[b][1]) : \A c \in Classes :
                LET x == all_box_pair_features[b][k][1]
                    y == all_box_pair_features[b][k][2]
                    mapped == object_class_to_target_class[box_labels[b][y]]
                IN  IF \E t \in 1..Len(mapped) : mapped[t] = c
                    THEN /\ all_prior[b][1][k][c]
                                = box_scores[b][x] * box_scores[b][x]
                         /\ all_prior[b][2][k][c]
                                = box_scores[b][y] * box_scores[b][y]
                    ELSE /\ all_prior[b][1][k][c] = 0
                         /\ all_prior[b][2][k][c] = 0

\* reached: a pair whose object class is mapped to two interaction classes,
\* both filled, with different human and object scores
C8_Witness ==
    /\ 1 \in Processed
    /\ \E k \in 1..Len(all_prior[1][1]) :
          /\ all_prior[1][1][k][1] = 36 /\ all_prior[1][1][k][2] = 36
          /\ all_prior[1][2][k][1] = 9 /\ all_prior[1][2][k][2] = 9
          /\ all_prior[1][1][k][0] = 0

\* C9: associate_with_ground_truth gives candidate pair i the label 1 for
\* class c exactly when some ground-truth entry j has label c and both the
\* IoU of the human boxes and the IoU of the object boxes, hence their
\* minimum, reach fg_iou_thresh; every other label is 0.
C9_Association ==
    \A b \in Processed :
        (~Degenerate(b) /\ HumansAreFirst(b)) =>
            /\ Len(all_labels[b]) = Len(all_boxes_h[b])
            /\ \A i \in 1..Len(all_labels[b]) : \A c \in Classes :
                  all_labels[b][i][c] =
                     IF \E j \in 1..Len(targets[b].labels) :
                           /\ targets[b].labels[j] = c
                           /\ IoUAtLeast(all_boxes_h[b][i],
                                         targets[b].boxes_h[j], fg_iou_thresh)
                           /\ IoUAtLeast(all_boxes_o[b][i],
                                         targets[b].boxes_o[j], fg_iou_thresh)
                     THEN 1 ELSE 0

\* reached: one pair positive for two classes
C9_Witness ==
    /\ 1 \in Processed
    /\ \E i \in 1..Len(all_labels[1]) :
          all_labels[1][i][0] = 1 /\ all_labels[1][i][1] = 1

\* reached: a pair whose human box meets the ground truth with IoU exactly
\* 0.5 is positive
C9_WitnessBoundary ==
    /\ 1 \in Processed
    /\ Len(targets[1].labels) = 1
    /\ \E i \in 1..Len(all_labels[1]) :
          /\ all_boxes_h[1][i] = BoxQ
          /\ all_labels[1][i][targets[1].labels[1]] = 1

\* reached: a pair is negative though its human box is the ground truth's
C9_WitnessOneSided ==
    /\ 1 \in Processed
    /\ Len(targets[1].labels) = 1
    /\ \E i \in 1..Len(all_labels[1]) :
          /\ all_boxes_h[1][i] = BoxP
          /\ all_labels[1][i][targets[1].labels[1]] = 0

---------------------------------------------------------------------------
(* The two losses of a training step on every worker,                      *)
(* compute_interaction_classification_loss (loss 1) and                    *)
(* compute_interactiveness_loss (loss 2), which forward calls in this      *)
(* order.  A worker makes its collective calls in program order, so call   *)
(* number 2L - 1 is the barrier of loss L and call 2L its all_reduce;      *)
(* coll[c] holds <<rank, value>> for every rank that has entered call c.   *)
(* A collective call returns once every rank has entered it.               *)

\* dist.get_world_size()
WorldSize == Len(workers)

\* line 150 for loss 1, line 170 for loss 2
LocalPositives(res, L) ==
    IF L = 1 THEN HoiPositives(res) ELSE InteractivenessPositives(res)
LossName(L) == IF L = 1 THEN "hoi" ELSE "interactiveness"

RECURSIVE SumValues(_)
SumValues(E) ==
    IF E = {} THEN 0
    ELSE LET e == CHOOSE e \in E : TRUE IN e[2] + SumValues(E \ {e})

Entered(c) == Cardinality(coll[c]) = WorldSize

NoWorldSize(E, world_size) == <<SumValues(E), 1>>
\* lines 155-156: n_p after all_reduce, divided by world_size, as num/den
ReducedCount(E, world_size) == <<SumValues(E), world_size>>

\* the loss L is stored and the worker goes on to the next
Finish(w, L, n_p) ==
    [w EXCEPT !.loss = Append(@, LossOver(LossName(L), n_p[1], n_p[2])),
              !.L = L + 1, !.at = "start"]

\* not distributed: lines 144-150 and 157-160 (162-170 and 177-180)
LossLocal(i) ==
    /\ pc = "workers"
    /\ ~distributed
    /\ workers[i].L <= 2 /\ workers[i].at = "start"
    /\ workers' = [workers EXCEPT ![i] =
          Finish(@, @.L, <<LocalPositives(@.results, @.L), 1>>)]
    /\ UNCHANGED <<pc, inputs, mpvars, aux, prestate, headargs, headstate, output, err,
                   distributed, coll>>

\* distributed: lines 149-154 (168-174), the local count and into the barrier
LossBarrier(i) ==
    /\ pc = "workers"
    /\ distributed
    /\ workers[i].L <= 2 /\ workers[i].at = "start"
    /\ workers' = [workers EXCEPT ![i].at = "barrier",
                                  ![i].n_p = LocalPositives(workers[i].results,
                                                            workers[i].L)]
    /\ coll' = [coll EXCEPT ![2 * workers[i].L - 1] = @ \cup {<<i, 0>>}]
    /\ UNCHANGED <<pc, inputs, mpvars, aux, prestate, headargs, headstate, output, err,
                   distributed>>

\* line 155 (175): out of the barrier, into all_reduce with the local count
LossAllReduce(i) ==
    /\ pc = "workers"
    /\ workers[i].L <= 2 /\ workers[i].at = "barrier"
    /\ Entered(2 * workers[i].L - 1)
    /\ workers' = [workers EXCEPT ![i].at = "all_reduce"]
    /\ coll' = [coll EXCEPT ![2 * workers[i].L] = @ \cup {<<i, workers[i].n_p>>}]
    /\ UNCHANGED <<pc, inputs, mpvars, aux, prestate, headargs, headstate, output, err,
                   distributed>>

\* lines 156-160 (176-180): out of all_reduce, the division
LossDivide(i) ==
    /\ pc = "workers"
    /\ workers[i].L <= 2 /\ workers[i].at = "all_reduce"
    /\ Entered(2 * workers[i].L)
    /\ workers' = [workers EXCEPT ![i] =
          Finish(@, @.L, ReducedCount(coll[2 * @.L], WorldSize))]
    /\ UNCHANGED <<pc, inputs, mpvars, aux, prestate, headargs, headstate, output, err,
                   distributed, coll>>

\* the interaction labels of a box pair over two retained classes
PairLabels == {<<0, 0>>, <<1, 0>>, <<1, 1>>}
\* the results of a worker's postprocess, as the losses read them: one image
\* with up to MaxPairs pairs
WorkerResults ==
    UNION {{<<[labels |-> Concat(rows, 1),
               binary_labels |-> [i \in 1..k |-> Min2(rows[i][1] + rows[i][2], 1)]]>>
            : rows \in [1..k -> PairLabels]} : k \in 0..MaxPairs}

InitLoss ==
    /\ pc = "workers"
    /\ training = TRUE /\ has_targets = TRUE /\ targets = <<>>
    /\ PreIdle /\ HeadIdle
    /\ num_iter = DefaultNumIter /\ NoLocals /\ AuxIdle
    /\ distributed \in BOOLEAN
    /\ \E k \in (IF distributed THEN 1..MaxWorkers ELSE {1}) :
          \E res \in [1..k -> WorkerResults] :
              workers = [i \in 1..k |->
                            [results |-> res[i], L |-> 1, at |-> "start",
                             n_p |-> 0, loss |-> <<>>]]
    /\ coll = [c \in 1..4 |-> {}]

\* a step of some worker
LocalStep == \E i \in 1..Len(workers) : LossLocal(i)
BarrierStep == \E i \in 1..Len(workers) : LossBarrier(i)
AllReduceStep == \E i \in 1..Len(workers) : LossAllReduce(i)
DivideStep == \E i \in 1..Len(workers) : LossDivide(i)

NextLoss == LocalStep \/ BarrierStep \/ AllReduceStep \/ DivideStep

SpecLoss == InitLoss /\ [][NextLoss]_vars

\* the positive labels of worker j that loss L counts
Positives(j, L) ==
    LET r == workers[j].results[1]
        lab == IF L = 1 THEN r.labels ELSE r.binary_labels
    IN  Cardinality({k \in 1..Len(lab) : lab[k] = 1})
RECURSIVE TotalPositives(_, _)
TotalPositives(j, L) ==
    IF j = 0 THEN 0 ELSE Positives(j, L) + TotalPositives(j - 1, L)

\* C10: each loss is the sum-reduced focal loss divided by n_p.  Not
\* distributed, n_p is the worker's own count of positive labels.
\* Distributed with k workers counting p_1..p_k, every worker divides by
\* (p_1 + ... + p_k) / k, and it has it from one all_reduce per loss that
\* every worker entered with its own count.
C10_Normalisation ==
    \A i \in 1..Len(workers) : \A L \in 1..Len(workers[i].loss) :
        /\ workers[i].loss[L].sum = LossName(L)
        /\ IF distributed
           THEN /\ workers[i].loss[L].n_p = <<TotalPositives(WorldSize, L), WorldSize>>
                /\ coll[2 * L] = {<<j, Positives(j, L)>> : j \in 1..WorldSize}
           ELSE /\ workers[i].loss[L].n_p = <<Positives(i, L), 1>>
                /\ coll[2 * L] = {}

\* reached: two workers with different counts for the two losses both have
\* both losses
C10_Witness ==
    /\ distributed /\ WorldSize = 2
    /\ \A i \in 1..2 : Len(workers[i].loss) = 2
    /\ Positives(1, 1) = 2 /\ Positives(2, 1) = 1
    /\ Positives(1, 2) = 1

\* reached: a worker that is not distributed has both losses
C10_WitnessLocal ==
    /\ ~distributed
    /\ Len(workers[1].loss) = 2
    /\ Positives(1, 1) = 2

---------------------------------------------------------------------------
(* The zero divisor, under SpecLoss *)

\* C11: when the divisor n_p of a loss is zero (no positive label, over all
\* workers when distributed), the division is not performed: no worker
\* holds a loss with a zero divisor, whose value is infinite or not a
\* number; the computation has raised instead.
C11_ZeroDivisorRaises ==
    \A i \in 1..Len(workers) : \A L \in 1..Len(workers[i].loss) :
        /\ workers[i].loss[L].n_p[1] # 0
        /\ workers[i].loss[L].value = "finite"

---------------------------------------------------------------------------
(* The learning engines of utils.py: one training iteration,               *)
(* CustomisedLE._on_each_iteration and CustomisedDLE._on_each_iteration.   *)
(* The network is given: what it returns is drawn at every call.  A loss   *)
(* is kept as "finite", "nan" or "inf".                                    *)

\* most iterations of an engine, most result records the network returns
MaxIterations == 2
MaxRecords == 1

LossValues == {"finite", "nan", "inf"}

\* the dict InteractionHead.forward appends in training (lines 296-301), as
\* it is or with an 'object_loss' added by the network around it
LossDicts ==
    [{"hoi_loss", "interactiveness_loss"} -> LossValues]
        \cup {d \in [{"hoi_loss", "interactiveness_loss", "object_loss"} -> LossValues] :
                 d["object_loss"] = "finite"}

\* the last entry of the network's output: a dict of losses or one loss
LastEntries ==
    {[kind |-> "dict", items |-> d, value |-> "none"] : d \in LossDicts}
        \cup {[kind |-> "tensor", items |-> <<>>, value |-> v] : v \in LossValues}
NoEntry == [kind |-> "none", items |-> <<>>, value |-> "none"]

\* what self._state.net(...) returns: None, or result records and a last entry
NetOutputs ==
    {[none |-> TRUE, results |-> 0, last |-> NoEntry]}
        \cup [none : {FALSE}, results : 0..MaxRecords, last : LastEntries]

\* sum(loss for loss in loss_dict.values()), line 276
SumLosses(d) ==
    IF \E k \in DOMAIN d : d[k] = "nan" THEN "nan"
    ELSE IF \E k \in DOMAIN d : d[k] = "inf" THEN "inf"
    ELSE "finite"

\* loss.backward(): the gradients of a loss that is not finite are not finite
Backward(loss) == IF loss = "finite" THEN "finite" ELSE "not_finite"

\* line 273: loss_dict['hoi_loss'].isnan()
IsNan(entry, key) == entry.items[key] = "nan"

\* optimizer.step(): one more update, and the parameters are lost once a
\* gradient is not finite
OptimizerStep(t) ==
    [t EXCEPT !.steps = t.steps + 1, !.stepped = TRUE,
              !.poisoned = t.poisoned \/ t.grads # "finite"]

\* the engine before its first iteration
EngineStart(e) ==
    [engine |-> e, iteration |-> 0,
     output |-> [none |-> TRUE, results |-> 0, last |-> NoEntry],
     loss_dict |-> NoEntry, loss |-> "none", grads |-> "none",
     steps |-> 0, poisoned |-> FALSE, backward |-> FALSE, stepped |-> FALSE,
     meter |-> 0, hoi_loss |-> 0, obj_loss |-> 0]

TrainFrame ==
    UNCHANGED <<inputs, prestate, headargs, headstate, output, lossvars,
                mpvars, unit>>

\* CustomisedDLE, lines 269-271: zero_grad and the call of the network
DLECallNet ==
    /\ pc = "it_idle" /\ trainer.engine = "CustomisedDLE"
    /\ trainer.iteration < MaxIterations
    /\ \E out \in NetOutputs :
          trainer' = [trainer EXCEPT !.output = out, !.grads = "zero",
                                     !.loss_dict = NoEntry, !.loss = "none",
                                     !.backward = FALSE, !.stepped = FALSE]
    /\ pc' = "dle_check"
    /\ err' = err
    /\ TrainFrame

\* CustomisedDLE, lines 272-276: pop the losses, the test for NaN, their sum
DLECheck ==
    /\ pc = "dle_check"
    /\ LET last == trainer.output.last IN
       IF trainer.output.none
       THEN /\ err' = "AttributeError: 'NoneType' object has no attribute 'pop'"
            /\ pc' = "raised"
            /\ trainer' = trainer
       ELSE IF last.kind # "dict"
       THEN /\ err' = "IndexError: a 0-dim tensor indexed by a key"
            /\ pc' = "raised"
            /\ trainer' = [trainer EXCEPT !.loss_dict = last]
       ELSE IF IsNan(last, "hoi_loss")
       THEN /\ err' = "ValueError: The HOI loss is NaN"
            /\ pc' = "raised"
            /\ trainer' = [trainer EXCEPT !.loss_dict = last]
       ELSE /\ trainer' = [trainer EXCEPT !.loss_dict = last,
                                          !.loss = SumLosses(last.items)]
            /\ pc' = "dle_backward"
            /\ err' = err
    /\ TrainFrame

\* CustomisedDLE, line 277
DLEBackward ==
    /\ pc = "dle_backward"
    /\ trainer' = [trainer EXCEPT !.grads = Backward(trainer.loss),
                                  !.backward = TRUE]
    /\ pc' = "dle_step"
    /\ err' = err
    /\ TrainFrame

\* CustomisedDLE, line 278
DLEOptimizerStep ==
    /\ pc = "dle_step"
    /\ trainer' = OptimizerStep(trainer)
    /\ pc' = "dle_log"
    /\ err' = err
    /\ TrainFrame

\* CustomisedDLE, lines 280-283: the meters
DLELog ==
    /\ pc = "dle_log"
    /\ IF "object_loss" \in DOMAIN trainer.loss_dict.items
       THEN /\ trainer' = [trainer EXCEPT !.hoi_loss = @ + 1, !.obj_loss = @ + 1,
                                          !.meter = @ + trainer.output.results,
                                          !.iteration = @ + 1]
            /\ pc' = "it_idle"
            /\ err' = err
       ELSE /\ trainer' = [trainer EXCEPT !.hoi_loss = @ + 1]
            /\ pc' = "raised"
            /\ err' = "KeyError: 'object_loss'"
    /\ TrainFrame

\* CustomisedLE, lines 206-212: zero_grad, the call, the return on None, pop
LECallNet ==
    /\ pc = "it_idle" /\ trainer.engine = "CustomisedLE"
    /\ trainer.iteration < MaxIterations
    /\ \E out \in NetOutputs :
          /\ trainer' = [trainer EXCEPT
                 !.output = out, !.grads = "zero", !.loss_dict = out.last,
                 !.loss = IF out.last.kind = "tensor" THEN out.last.value
                          ELSE "none",
                 !.backward = FALSE, !.stepped = FALSE,
                 !.iteration = IF out.none THEN @ + 1 ELSE @]
          /\ pc' = IF out.none THEN "it_idle" ELSE "le_backward"
    /\ err' = err
    /\ TrainFrame

\* CustomisedLE, line 213: a dict has no backward
LEBackward ==
    /\ pc = "le_backward"
    /\ IF trainer.loss_dict.kind = "dict"
       THEN /\ err' = "AttributeError: 'dict' object has no attribute 'backward'"
            /\ pc' = "raised"
            /\ trainer' = trainer
       ELSE /\ trainer' = [trainer EXCEPT !.grads = Backward(trainer.loss),
                                          !.backward = TRUE]
            /\ pc' = "le_step"
            /\ err' = err
    /\ TrainFrame

\* CustomisedLE, line 214
LEOptimizerStep ==
    /\ pc = "le_step"
    /\ trainer' = OptimizerStep(trainer)
    /\ pc' = "le_log"
    /\ err' = err
    /\ TrainFrame

\* CustomisedLE, lines 216-221
LELog ==
    /\ pc = "le_log"
    /\ trainer' = [trainer EXCEPT !.meter = @ + trainer.output.results,
                                  !.iteration = @ + 1]
    /\ pc' = "it_idle"
    /\ err' = err
    /\ TrainFrame

InitTrain ==
    /\ pc = "it_idle"
    /\ training = TRUE /\ has_targets = TRUE /\ targets = <<>>
    /\ PreIdle /\ HeadIdle /\ LossIdle
    /\ num_iter = DefaultNumIter /\ NoLocals
    /\ trainer \in {EngineStart(e) : e \in {"CustomisedLE", "CustomisedDLE"}}
    /\ unit = NoUnit

NextTrain ==
    \/ DLECallNet \/ DLECheck \/ DLEBackward \/ DLEOptimizerStep \/ DLELog
    \/ LECallNet \/ LEBackward \/ LEOptimizerStep \/ LELog

SpecTrain == InitTrain /\ [][NextTrain]_vars

\* the popped dict holds a loss that is not a number
HasNanTerm(entry) ==
    /\ entry.kind = "dict"
    /\ \/ entry.items["hoi_loss"] = "nan"
       \/ entry.items["interactiveness_loss"] = "nan"

\* C12: in a training iteration, when the interaction-classification loss or
\* the interactiveness loss the network returned is not a number, there is
\* no backward pass and no optimizer step in that iteration: the parameters
\* are as they were.
C12_NanAbortsBeforeBackward ==
    (trainer.engine # "none" /\ HasNanTerm(trainer.output.last)) =>
        /\ ~trainer.backward
        /\ ~trainer.stepped
        /\ ~trainer.poisoned

---------------------------------------------------------------------------
(* The errors of GraphHead.forward, under SpecPrior and SpecForward *)

OrderingError == "ValueError: Human detections are not permuted to the top"
NoPairsError == "ValueError: There are no valid human-object pairs"

\* the image in hand is one GraphHead.forward does not skip
InHand == pc = "graph" /\ g_idx <= Len(box_coords) /\ ~Degenerate(g_idx)

\* C13: on an image that is not skipped (n_h >= 1 and n >= 2),
\* GraphHead.forward raises the ValueError of line 547 if and only if some
\* of the first n_h labels is not human_idx; when it raises, the call ends
\* there: nothing is appended for the image and no output is produced.
C13_OrderingErrorIff ==
    /\ [][InHand => (err' = OrderingError <=> ~HumansAreFirst(g_idx))]_vars
    /\ [](err = OrderingError =>
            /\ pc = "raised" /\ output = <<>>
            /\ ~Degenerate(g_idx) /\ ~HumansAreFirst(g_idx)
            /\ Len(all_boxes_h) = g_idx - 1
            /\ Len(all_box_pair_features) = g_idx - 1)
    /\ [](\A b \in Processed : ~Degenerate(b) => HumansAreFirst(b))

\* reached: the first label is human, the second of the two humans is not
\* among the first two
C13_Witness ==
    /\ err = OrderingError
    /\ box_labels[1] = <<human_idx, 2, human_idx>>

\* reached: humans first, three detections, no error
C13_WitnessNoError ==
    /\ err = "" /\ 1 \in Processed
    /\ box_labels[1] = <<human_idx, human_idx, 2>>

---------------------------------------------------------------------------
(* Construction of a fusion unit: AttentionHead.__init__ and               *)
(* MessageAttentionHead.__init__                                           *)

\* the sizes tried: every small one, and those of GraphHead.__init__
MaxRepr == 8
MaxCard == 3
ReprSizes == (1..MaxRepr) \cup {250, 256}
Cardinalities == (1..MaxCard) \cup {16}
NodeTypes == {"human", "object", "edge"}

\* line 310: int(representation_size / cardinality), positive operands
SubReprSize(representation_size, cardinality) ==
    representation_size \div cardinality

AssertNothing(sub_repr_size, cardinality, representation_size) == TRUE
\* line 311: the condition of the assert
AssertDivisible(sub_repr_size, cardinality, representation_size) ==
    sub_repr_size * cardinality = representation_size

\* the arguments of a constructor call, nothing constructed yet
UnitArgs ==
    [cls : {"AttentionHead"}, representation_size : ReprSizes,
     cardinality : Cardinalities, node_type : {"none"},
     made : {FALSE}, sub_repr_size : {0}, fc : {0}, forward_method : {"none"}]
    \cup
    [cls : {"MessageAttentionHead"}, representation_size : ReprSizes,
     cardinality : Cardinalities, node_type : NodeTypes,
     made : {FALSE}, sub_repr_size : {0}, fc : {0}, forward_method : {"none"}]

\* AttentionHead.__init__, lines 306-325, on the unit u: the unit with its
\* cardinality triples of linear layers, or the error of the assert
AttentionHeadInit(u) ==
    LET sub == SubReprSize(u.representation_size, u.cardinality)
    IN  IF AssertDivisible(sub, u.cardinality, u.representation_size)
        THEN [unit |-> [u EXCEPT !.sub_repr_size = sub, !.fc = u.cardinality],
              err |-> ""]
        ELSE [unit |-> u,
              err |-> "AssertionError: The given representation size should be divisible by cardinality"]

UnitFrame ==
    UNCHANGED <<inputs, prestate, headargs, headstate, output, lossvars,
                mpvars, trainer>>

\* AttentionHead(...)
ConstructAttentionHead ==
    /\ pc = "construct" /\ unit.cls = "AttentionHead"
    /\ LET r == AttentionHeadInit(unit)
       IN  IF r.err = ""
           THEN /\ unit' = [r.unit EXCEPT !.made = TRUE, !.forward_method = "forward"]
                /\ pc' = "constructed"
                /\ err' = err
           ELSE /\ unit' = unit
                /\ pc' = "raised"
                /\ err' = r.err
    /\ UnitFrame

\* MessageAttentionHead(...), lines 334-342: the parent's __init__, then
\* the forward method of the node type
ConstructMessageAttentionHead ==
    /\ pc = "construct" /\ unit.cls = "MessageAttentionHead"
    /\ LET r == AttentionHeadInit(unit)
       IN  IF r.err # ""
           THEN /\ unit' = unit
                /\ pc' = "raised"
                /\ err' = r.err
           ELSE IF unit.node_type = "human"
           THEN /\ unit' = [r.unit EXCEPT !.made = TRUE,
                                         !.forward_method = "_forward_human_nodes"]
                /\ pc' = "constructed"
                /\ err' = err
           ELSE IF unit.node_type = "object"
           THEN /\ unit' = [r.unit EXCEPT !.made = TRUE,
                                         !.forward_method = "_forward_object_nodes"]
                /\ pc' = "constructed"
                /\ err' = err
           ELSE /\ unit' = unit
                /\ pc' = "raised"
                /\ err' = "ValueError: Unknown node type"
    /\ UnitFrame

InitUnit ==
    /\ pc = "construct"
    /\ training = FALSE /\ has_targets = FALSE /\ targets = <<>>
    /\ PreIdle /\ HeadIdle /\ LossIdle
    /\ num_iter = DefaultNumIter /\ NoLocals
    /\ trainer = NoTrainer
    /\ unit \in UnitArgs

NextUnit == ConstructAttentionHead \/ ConstructMessageAttentionHead

SpecUnit == InitUnit /\ [][NextUnit]_vars

\* the constructor has returned or raised
Constructed == pc \in {"constructed", "raised"}
Divides(c, r) == r % c = 0

\* C14 as stated: constructing an AttentionHead or a MessageAttentionHead
\* with positive representation_size and cardinality succeeds if and only
\* if cardinality divides representation_size; otherwise it fails with an
\* error and there is no unit.
C14_SucceedsIffDivisible ==
    Constructed =>
        /\ unit.made <=> Divides(unit.cardinality, unit.representation_size)
        /\ unit.made <=> err = ""

\* C14, amended: the same, for an AttentionHead and for a
\* MessageAttentionHead of node type 'human' or 'object'; a
\* MessageAttentionHead of any other node type fails with a ValueError
\* whatever the sizes are, unless the assert has failed first.
C14_SucceedsIffDivisibleAndKnownType ==
    Constructed =>
        LET divides == Divides(unit.cardinality, unit.representation_size)
            known == unit.cls = "MessageAttentionHead"
                        => unit.node_type \in {"human", "object"}
        IN  /\ unit.made <=> (divides /\ known)
            /\ unit.made <=> (err = "" /\ pc = "constructed")
            /\ unit.made =>
                  /\ unit.sub_repr_size * unit.cardinality = unit.representation_size
                  /\ unit.fc = unit.cardinality
            /\ ~divides =>
                  (pc = "raised" /\ err # "" /\ err # "ValueError: Unknown node type")
            /\ (divides /\ ~known) => err = "ValueError: Unknown node type"

\* reached: 256 over 16 is constructed with sub-representations of 16
C14_Witness ==
    /\ pc = "constructed" /\ unit.made
    /\ unit.representation_size = 256 /\ unit.cardinality = 16
    /\ unit.sub_repr_size = 16

\* reached: 250 over 16 fails
C14_WitnessFails ==
    /\ pc = "raised" /\ ~unit.made
    /\ unit.representation_size = 250 /\ unit.cardinality = 16

---------------------------------------------------------------------------
(* The offsets into box_features, under SpecForward *)

RECURSIVE BoxesBefore(_)
\* the rows of box_features that belong to the images before image b: the
\* box counts of all of them, skipped or not
BoxesBefore(b) == IF b <= 1 THEN 0 ELSE NB(b - 1) + BoxesBefore(b - 1)

\* C15: for every image b that is not skipped, the node encodings used for
\* b are the rows of box_features that belong to b: the slice starts at the
\* sum of the box counts of all images before b, skipped ones included, so
\* pair <<x, y>> of b is made of rows BoxesBefore(b) + x and
\* BoxesBefore(b) + y.
C15_SliceAtOwnRows ==
    \A b \in Processed :
        ~Degenerate(b) =>
            LET f == all_box_pair_features[b]
            IN  {f[k] : k \in 1..Len(f)} =
                    {<<BoxesBefore(b) + p[1], BoxesBefore(b) + p[2]>> :
                        p \in {q \in (1..NH(b)) \X (1..NB(b)) : q[1] # q[2]}}

---------------------------------------------------------------------------
(* The loop of line 575 step by step, for one image that is not skipped    *)

\* most iterations GraphHead is configured with
MaxIter == 3

\* the label sequences GraphHead.forward takes into the loop: humans first,
\* at least one human, at least two detections
LoopLabels ==
    {l \in UNION {[1..k -> DetLabels] : k \in 2..MaxNodes} :
        /\ NumHuman(l) >= 1
        /\ HumansOnTop(l, NumHuman(l))}

\* the loop is entered, lines 549-573 done
InitRounds ==
    /\ pc = "mp_loop"
    /\ training = FALSE /\ has_targets = FALSE /\ targets = <<NoTarget>>
    /\ PreIdle /\ LossIdle /\ AuxIdle
    /\ g_idx = 1 /\ counter = 0
    /\ all_box_pair_features = <<>> /\ all_boxes_h = <<>>
    /\ all_boxes_o = <<>> /\ all_object_class = <<>>
    /\ all_labels = <<>> /\ all_prior = <<>>
    /\ output = <<>> /\ err = ""
    /\ \E l \in LoopLabels :
          /\ box_labels = <<l>>
          /\ box_coords = <<[i \in 1..Len(l) |-> BoxAt(i)]>>
          /\ box_scores = <<[i \in 1..Len(l) |-> 6]>>
          /\ LET s == LoopEntry(0, NumHuman(l), Len(l))
             IN  /\ node_encodings = s.node_encodings
                 /\ h_node_encodings = s.h_node_encodings
                 /\ adjacency_matrix = s.adjacency_matrix
                 /\ messages_to_h = s.messages_to_h
                 /\ messages_to_o = s.messages_to_o
                 /\ rounds = s.rounds
    /\ num_iter \in 0..MaxIter

LoopFrame ==
    UNCHANGED <<inputs, prestate, headargs, headstate, output, err, lossvars,
                num_iter, aux>>

\* lines 575-585: one more iteration, the weights of the edges
LoopAdjacency ==
    /\ pc = "mp_loop"
    /\ LoopContinues(rounds, num_iter)
    /\ SetLocals(RoundAdjacency(Locals))
    /\ pc' = "mp_human"
    /\ LoopFrame

\* lines 586-596
LoopUpdateHuman ==
    /\ pc = "mp_human"
    /\ SetLocals(RoundHuman(Locals))
    /\ pc' = "mp_object"
    /\ LoopFrame

\* lines 598-608
LoopUpdateObject ==
    /\ pc = "mp_object"
    /\ SetLocals(RoundObject(Locals))
    /\ pc' = "mp_loop"
    /\ LoopFrame

\* line 575: range(num_iter) is exhausted
LoopExit ==
    /\ pc = "mp_loop"
    /\ ~LoopContinues(rounds, num_iter)
    /\ SetLocals(Locals)
    /\ pc' = "mp_done"
    /\ LoopFrame

NextRounds == LoopAdjacency \/ LoopUpdateHuman \/ LoopUpdateObject \/ LoopExit

SpecRounds == InitRounds /\ [][NextRounds]_vars

HumanNodes == 1..Len(h_node_encodings)
GenericNodes == 1..Len(node_encodings)
\* every human-role encoding has been through v updates, every generic one
\* through w
Versions(v, w) ==
    /\ \A i \in HumanNodes : h_node_encodings[i].ver = v
    /\ \A j \in GenericNodes : node_encodings[j].ver = w
\* every weight of the adjacency was computed from encodings of version v
AdjacencyOf(v) ==
    \A i \in HumanNodes : \A j \in GenericNodes :
        /\ adjacency_matrix[i][j] # <<>>
        /\ adjacency_matrix[i][j][1].ver = v /\ adjacency_matrix[i][j][1].row = i
        /\ adjacency_matrix[i][j][2].ver = v /\ adjacency_matrix[i][j][2].row = j
\* the messages to the human nodes were made with the weights of the
\* adjacency in hand, from generic encodings of version v
MessagesToHumansFrom(v) ==
    \A i \in HumanNodes : \A j \in DOMAIN messages_to_h[i] :
        /\ messages_to_h[i][j].weight = adjacency_matrix[i][j]
        /\ messages_to_h[i][j].from.ver = v
        /\ messages_to_h[i][j].from.row = j
\* the messages to the generic nodes were made with the weights of the
\* adjacency in hand, from human-role encodings of version v
MessagesToGenericFrom(v) ==
    \A j \in GenericNodes : \A i \in DOMAIN messages_to_o[j] :
        /\ messages_to_o[j][i].weight = adjacency_matrix[i][j]
        /\ messages_to_o[j][i].from.ver = v
        /\ messages_to_o[j][i].from.by = "norm_h"
        /\ messages_to_o[j][i].from.row = i

\* C16: for an image that is not skipped the loop makes exactly num_iter
\* rounds and stops.  In round r the adjacency is computed first, from the
\* encodings as round r - 1 left them; the human nodes are then updated
\* with messages from the generic encodings as they were at the start of
\* the round; the generic nodes are updated last, with messages from the
\* human encodings updated in this round and the same adjacency.
C16_RoundsInOrder ==
    /\ rounds <= num_iter
    /\ pc = "mp_done" => rounds = num_iter
    /\ pc = "mp_loop" => Versions(rounds, rounds)
    /\ pc = "mp_done" => Versions(num_iter, num_iter)
    /\ pc = "mp_human" => (Versions(rounds, rounds) /\ AdjacencyOf(rounds))
    /\ pc = "mp_object" =>
          /\ Versions(rounds + 1, rounds)
          /\ AdjacencyOf(rounds)
          /\ Len(messages_to_h) = Len(h_node_encodings)
          /\ MessagesToHumansFrom(rounds)
    /\ (pc \in {"mp_loop", "mp_done"} /\ rounds >= 1) =>
          /\ AdjacencyOf(rounds - 1)
          /\ MessagesToHumansFrom(rounds - 1)
          /\ Len(messages_to_o) = Len(node_encodings)
          /\ MessagesToGenericFrom(rounds)

\* reached: two rounds were asked for and made, two humans and an object
C16_Witness ==
    /\ pc = "mp_done" /\ num_iter = 2 /\ rounds = 2
    /\ box_labels[1] = <<human_idx, human_idx, 2>>
    /\ Len(messages_to_o) = 3

\* reached: no round was asked for, none was made
C16_WitnessNoRound ==
    /\ pc = "mp_done" /\ num_iter = 0
    /\ adjacency_matrix = Ones(Len(h_node_encodings), Len(node_encodings))

\* C17: in every round the edges of the graph are the <<human node, generic
\* node>> pairs that are not identity pairs: no weight that is normalized
\* and used for a message to a human node or to a generic node belongs to
\* a human node and its own entry among the generic nodes.
C17_NoIdentityEdge ==
    /\ \A i \in 1..Len(messages_to_h) : \A j \in DOMAIN messages_to_h[i] :
          messages_to_h[i][j].from.row # h_node_encodings[i].row
    /\ \A j \in 1..Len(messages_to_o) : \A i \in DOMAIN messages_to_o[j] :
          messages_to_o[j][i].from.row # node_encodings[j].row

\* C20: the human-role encodings are copies: the update of the human nodes
\* leaves every generic encoding as it was, those of the human detections
\* included, and the update of the generic nodes leaves every human-role
\* encoding as it was; after a round a human detection holds two
\* encodings, one made by each update.
C20_RolesIndependent ==
    /\ [][/\ pc = "mp_human" =>
                /\ node_encodings' = node_encodings
                /\ h_node_encodings' # h_node_encodings
          /\ pc = "mp_object" =>
                /\ h_node_encodings' = h_node_encodings
                /\ node_encodings' # node_encodings]_vars
    /\ []((pc \in {"mp_loop", "mp_done"} /\ rounds >= 1) =>
             \A i \in HumanNodes :
                /\ h_node_encodings[i].row = node_encodings[i].row
                /\ h_node_encodings[i].by = "norm_h"
                /\ node_encodings[i].by = "norm_o"
                /\ h_node_encodings[i].ver = node_encodings[i].ver)
    /\ [](pc = "mp_object" =>
             \A i \in HumanNodes :
                /\ h_node_encodings[i].ver = rounds + 1
                /\ node_encodings[i].ver = rounds)

\* reached: in the second round the human nodes are updated and the
\* generic entries of the two human detections are still as the first
\* round left them
C20_Witness ==
    /\ pc = "mp_object" /\ rounds = 1
    /\ Len(h_node_encodings) = 2
    /\ \A i \in HumanNodes :
          /\ h_node_encodings[i] = [row |-> i, by |-> "norm_h", ver |-> 2]
          /\ node_encodings[i] = [row |-> i, by |-> "norm_o", ver |-> 1]

---------------------------------------------------------------------------
(* The errors that are never raised *)

\* C18: the ValueError of line 561 is never raised: an image with n_h >= 1
\* and n >= 2 keeps, once the self-pairs are removed from the n_h x n
\* pairs, at least one pair.
C18_NoPairsErrorUnreachable ==
    /\ err # NoPairsError
    /\ \A b \in Processed :
          ~Degenerate(b) => Len(all_box_pair_features[b]) >= 1

\* reached: the smallest image that is not skipped, two humans and nothing
\* else, has two pairs
C18_Witness ==
    /\ 1 \in Processed /\ err = ""
    /\ box_labels[1] = <<human_idx, human_idx>>
    /\ Len(all_box_pair_features[1]) = 2

\* reached: one human and one object have one pair
C18_WitnessOnePair ==
    /\ 1 \in Processed /\ err = ""
    /\ box_labels[1] = <<human_idx, 2>>
    /\ Len(all_box_pair_features[1]) = 1

\* C19: through InteractionHead.forward, whatever the raw detections and
\* the targets are, the detections preprocess hands to GraphHead.forward
\* have their humans first, so the ValueError of line 547 is never raised.
C19_OrderingErrorUnreachable ==
    /\ err # OrderingError
    /\ \A b \in 1..Len(box_labels) : HumansAreFirst(b)
    /\ \A b \in 1..Len(results) :
          \A i, j \in 1..Len(results[b].labels) :
              (i < j /\ results[b].labels[j] = human_idx)
                  => results[b].labels[i] = human_idx

\* reached: the detector gave an object before a human with a lower score,
\* preprocess put the human first and GraphHead.forward made their pair
C19_Witness ==
    /\ pc = "done" /\ err = ""
    /\ detections[1].labels = <<2, human_idx>>
    /\ box_labels[1] = <<human_idx, 2>>
    /\ Len(all_boxes_h[1]) = 1

\* reached: the same in training, with the ground truth appended
C19_WitnessTraining ==
    /\ pc = "done" /\ err = "" /\ training
    /\ detections[1].labels = <<2, human_idx>>
    /\ Len(box_labels[1]) >= 3
    /\ Len(all_boxes_h[1]) >= 1

====
